---- MODULE Spec2Model ----
(***************************************************************************)
(* Model of desktop/flipper-server-core/src/utils/DeviceListener.tsx:      *)
(* the State class (current state, error, per-state subscriptions) and the *)
(* DeviceListener lifecycle (start / stop, retry, auto restart).           *)
(*                                                                         *)
(* One action is one JavaScript run-to-completion step: a call of start()  *)
(* or stop() up to its first await, or the continuation that runs when an  *)
(* awaited promise (startListener, sleep, the teardown function) settles.  *)
(* Everything a step does synchronously, including the subscribers that    *)
(* set() notifies and the start()/stop() calls those subscribers make, is  *)
(* part of the step.                                                       *)
(***************************************************************************)
EXTENDS Integers, Sequences, FiniteSets, TLC

\* ---------------------------------------------------------------- bounds
MaxCalls == 4        \* start()/stop() calls issued by the callers
MaxFailures == 5     \* startListener() rejections the environment injects
MaxObservers == 1    \* on()/once() registrations made by outside observers
MaxObsCalls == 2     \* start()/stop() calls issued while observers are watched

\* ------------------------------------------------------------- constants
RESTART_CNT == 3

States == {"starting", "stopping", "active", "inactive", "fatal", "zombie"}

None == <<>>                        \* undefined
AssertErr == <<"assertNotNull">>    \* the error assertNotNull throws
NoCnt == 0 - 1

Calls == 1..MaxCalls
AutoCall == 0                       \* the start() issued by the 'fatal' subscriber
AllCalls == 0..MaxCalls

VARIABLES
    currentState,     \* State._currentState
    error,            \* State._error
    valueEmitter,     \* State.valueEmitter: the registrations, in order
    stopLogListener,  \* DeviceListener.stopLogListener: 0 (undefined) or a token
    restartCnt,       \* DeviceListener.restartCnt
    device,           \* what isDeviceConnected() does when called now
    pc,               \* per call: where its promise stands
    hist,             \* per call: what it was, saw and did (history)
    invoked,          \* per teardown token: how often it was invoked (history)
    nFail,            \* startListener() rejections so far
    autoStarts,       \* start() calls issued by the 'fatal' subscriber (history)
    activeCnt,        \* restartCnt right after the last set('active') of the step
    completed,        \* the calls whose promise settled in the last step
    observers         \* the callbacks registered through DeviceListener.on / once

vars == <<currentState, error, valueEmitter, stopLogListener, restartCnt, device,
          pc, hist, invoked, nFail, autoStarts, activeCnt, completed, observers>>

\* ------------------------------------------------------- code decisions

\* start() without the test for 'stopping'
StartBranch_NoStoppingTest(s) ==
    IF s = "active" THEN "noop"
    ELSE IF s = "starting" THEN "waitActiveFatal"
    ELSE "attach"

\* start() without the test for 'active'
StartBranch_NoActiveTest(s) ==
    IF s = "starting" THEN "waitActiveFatal"
    ELSE IF s = "stopping" THEN "waitInactiveZombie"
    ELSE "attach"

\* start() without the test for 'starting'
StartBranch_NoStartingTest(s) ==
    IF s = "active" THEN "noop"
    ELSE IF s = "stopping" THEN "waitInactiveZombie"
    ELSE "attach"

\* start() waiting for the wrong states while 'starting'
StartBranch_WrongStates(s) ==
    IF s = "active" THEN "noop"
    ELSE IF s \in {"starting", "stopping"} THEN "waitInactiveZombie"
    ELSE "attach"

\* start(): the dispatch on the current state (lines 127-162)
StartBranch(s) ==
    IF s = "active" THEN "noop"
    ELSE IF s = "starting" THEN "waitActiveFatal"
    ELSE IF s = "stopping" THEN "waitInactiveZombie"
    ELSE "attach"

\* stop() not treating 'zombie' as stopped
StopBranch_NoZombieTest(s) ==
    IF s \in {"inactive", "fatal"} THEN "noop"
    ELSE IF s = "stopping" THEN "waitInactiveZombie"
    ELSE IF s = "starting" THEN "waitActiveFatal"
    ELSE "detach"

\* stop() treating 'starting' as 'stopping'
StopBranch_StartingAsActive(s) ==
    IF s \in {"inactive", "fatal", "zombie"} THEN "noop"
    ELSE IF s = "stopping" THEN "waitInactiveZombie"
    ELSE "detach"

\* stop() without the test for 'stopping'
StopBranch_NoStoppingTest(s) ==
    IF s \in {"inactive", "fatal", "zombie"} THEN "noop"
    ELSE IF s = "starting" THEN "waitActiveFatal"
    ELSE "detach"

\* stop() without the test for 'starting'
StopBranch_NoStartingTest(s) ==
    IF s \in {"inactive", "fatal", "zombie"} THEN "noop"
    ELSE IF s = "stopping" THEN "waitInactiveZombie"
    ELSE "detach"

\* stop(): the dispatch on the current state (lines 202-237)
StopBranch(s) ==
    IF s \in {"inactive", "fatal", "zombie"} THEN "noop"
    ELSE IF s = "stopping" THEN "waitInactiveZombie"
    ELSE IF s = "starting" THEN "waitActiveFatal"
    ELSE "detach"

\* the states a waiting call subscribes to
WaitStates(b) ==
    IF b = "waitActiveFatal" THEN {"active", "fatal"} ELSE {"inactive", "zombie"}

\* the test off by one
RetriesExhausted_OffByOne(cnt) == cnt < 0

\* start(): if (this.restartCnt <= 0) in the catch block
RetriesExhausted(cnt) == cnt <= 0

\* start(): this.restartCnt--
DecrementRestartCnt(cnt) == cnt - 1

\* constructor: the 'active' subscriber
ResetRestartCnt(cnt) == RESTART_CNT

\* the 'fatal' subscriber with its test off by one
SkipAutoRestart_OffByOne(cnt) == cnt < 0

\* constructor: the 'fatal' subscriber returns early if (this.restartCnt <= 0)
SkipAutoRestart(cnt) == cnt <= 0

\* wrappedCb without its guard
WrappedCbRuns_Unguarded(executed) == TRUE

\* State.subscribe: wrappedCb runs cb only if (!executed)
WrappedCbRuns(executed) == ~executed

\* State.subscribe: the current state is one of the states: cb() at once
FiresImmediately(s, states) == s \in states

\* set() keeping the error of 'fatal' only
StoredError_FatalOnly(newState, e) == IF newState = "fatal" THEN e ELSE None

\* set() dropping the error
StoredError_Dropped(newState, e) == None

\* State.set: the error that is stored with the new state
StoredError(newState, e) == e

\* stop() with the two outcomes exchanged
TeardownResult_Swapped(ok, e) ==
    IF ok THEN <<"zombie", e>> ELSE <<"inactive", None>>

\* stop(): the state and error set after the teardown function settled
TeardownResult(ok, e) ==
    IF ok THEN <<"inactive", None>> ELSE <<"zombie", e>>

\* start(): while (!this.stopLogListener)
LoopContinues(tok) == tok = 0

\* start() reporting an absent device as a crash
DeviceAbsentState_Fatal == "fatal"

\* start(): the state set when isDeviceConnected() returns false
DeviceAbsentState == "inactive"

\* ---------------------------------------------------- the machine state
\* The synchronous part of a step is computed on a record of the variables.
Pack ==
    [currentState |-> currentState, error |-> error, valueEmitter |-> valueEmitter,
     stopLogListener |-> stopLogListener, restartCnt |-> restartCnt,
     device |-> device, pc |-> pc, hist |-> hist, invoked |-> invoked,
     nFail |-> nFail, autoStarts |-> autoStarts,
     activeCnt |-> NoCnt, completed |-> {}, observers |-> observers]

Install(M) ==
    /\ currentState' = M.currentState
    /\ error' = M.error
    /\ valueEmitter' = M.valueEmitter
    /\ stopLogListener' = M.stopLogListener
    /\ restartCnt' = M.restartCnt
    /\ device' = M.device
    /\ pc' = M.pc
    /\ hist' = M.hist
    /\ invoked' = M.invoked
    /\ nFail' = M.nFail
    /\ autoStarts' = M.autoStarts
    /\ activeCnt' = M.activeCnt
    /\ completed' = M.completed
    /\ observers' = M.observers

NoHist ==
    [op |-> "none", issuedIn |-> "none", outcome |-> "none", did |-> <<>>,
     woke |-> <<>>, attaches |-> 0, fails |-> 0, sleeps |-> 0,
     from |-> "none", cnt0 |-> NoCnt, tok |-> 0]

\* the promise of call c settles
Complete(M, c, how, outcome) ==
    [M EXCEPT !.pc[c] = how, !.hist[c].outcome = outcome,
              !.completed = @ \cup {c}]

\* the registrations of state s, in registration order (EventEmitter.emit
\* works on a copy of the listener array)
RECURSIVE ListenersOf(_, _, _)
ListenersOf(subs, s, i) ==
    IF i > Len(subs) THEN <<>>
    ELSE IF s \in subs[i].states THEN <<i>> \o ListenersOf(subs, s, i + 1)
    ELSE ListenersOf(subs, s, i + 1)

\* the observers from the k-th on note an entry into newState (history)
RECURSIVE NoteEntries(_, _, _)
NoteEntries(obs, newState, k) ==
    IF k > Len(obs) THEN obs
    ELSE NoteEntries(IF newState \in obs[k].states
                     THEN [obs EXCEPT ![k].entries = @ + 1]
                     ELSE obs,
                     newState, k + 1)

RECURSIVE SetState(_, _, _, _), Emit(_, _, _), RunCb(_, _, _),
          Subscribe(_, _, _, _, _), RunStart(_, _), RunStop(_, _),
          AttachLoop(_, _)

\* State.set, called by call c; every observer notes an entry into one of
\* its states (history)
SetState(M, c, newState, e) ==
    LET M1 == [M EXCEPT !.currentState = newState,
                        !.error = StoredError(newState, e),
                        !.hist[c].did = Append(@, <<newState, e>>),
                        !.observers = NoteEntries(@, newState, 1)]
        M2 == Emit(M1, newState, ListenersOf(M1.valueEmitter, newState, 1))
    IN  IF newState = "active" THEN [M2 EXCEPT !.activeCnt = M2.restartCnt]
        ELSE M2

\* EventEmitter.emit(s) over the copied listener array snap.  A listener
\* added with once() is removed from s before it is called and is skipped
\* if a nested emit already called it.
Emit(M, s, snap) ==
    IF snap = <<>> THEN M
    ELSE LET i == Head(snap)
             sub == M.valueEmitter[i]
         IN  IF s \notin sub.states THEN Emit(M, s, Tail(snap))
             ELSE LET M1 == IF sub.once
                            THEN [M EXCEPT !.valueEmitter[i].states = @ \ {s}]
                            ELSE M
                      M2 == IF WrappedCbRuns(sub.executed)
                            THEN RunCb([M1 EXCEPT !.valueEmitter[i].executed = TRUE],
                                       sub, s)
                            ELSE M1
                  IN  Emit(M2, s, Tail(snap))

\* the callbacks the lifecycle registers; a waiting call notes the state
\* that was emitted and the state it finds (history)
RunCb(M, sub, s) ==
    CASE sub.cb = "resetRestartCnt" ->
            [M EXCEPT !.restartCnt = ResetRestartCnt(@)]
      [] sub.cb = "autoRestart" ->
            IF SkipAutoRestart(M.restartCnt) THEN M
            ELSE RunStart([M EXCEPT !.autoStarts = @ + 1,
                                    !.hist[AutoCall].op = "start",
                                    !.hist[AutoCall].issuedIn = M.currentState],
                          AutoCall)
      [] sub.cb = "start" ->
            RunStart([M EXCEPT !.hist[sub.call].woke = Append(@, <<s, M.currentState>>)],
                     sub.call)
      [] sub.cb = "stop" ->
            RunStop([M EXCEPT !.hist[sub.call].woke = Append(@, <<s, M.currentState>>)],
                     sub.call)
      [] sub.cb = "observer" ->
            [M EXCEPT !.observers[sub.call].calls = @ + 1]

\* State.subscribe (behind on and once)
Subscribe(M, states, cb, c, once) ==
    LET sub == [cb |-> cb, call |-> c, states |-> states, once |-> once,
                executed |-> FALSE]
    IN  IF FiresImmediately(M.currentState, states)
        THEN RunCb(M, sub, M.currentState)
        ELSE [M EXCEPT !.valueEmitter = Append(@, sub)]

\* start(): the loop of the attach sequence, from the loop test to the
\* next await or return
AttachLoop(M, c) ==
    IF ~LoopContinues(M.stopLogListener)
    THEN Complete(SetState(M, c, "active", None), c, "resolved", "active")
    ELSE CASE M.device = "disconnected" ->
                Complete(SetState(M, c, DeviceAbsentState, None), c, "resolved", "absent")
           [] M.device = "throws" ->
                Complete(M, c, "rejected", "threw")
           [] M.device = "connected" ->
                [M EXCEPT !.pc[c] = "attach", !.hist[c].attaches = @ + 1]

\* start() up to its first await or return
RunStart(M, c) ==
    LET b == StartBranch(M.currentState)
    IN  CASE b = "noop" -> Complete(M, c, "resolved", "noop")
          [] b \in {"waitActiveFatal", "waitInactiveZombie"} ->
                Subscribe([M EXCEPT !.pc[c] = "waiting"], WaitStates(b), "start", c, TRUE)
          [] b = "attach" ->
                AttachLoop(
                    SetState([M EXCEPT !.stopLogListener = 0,
                                       !.hist[c].from = M.currentState,
                                       !.hist[c].cnt0 = M.restartCnt],
                             c, "starting", None),
                    c)

\* stop() up to its first await or return
RunStop(M, c) ==
    LET b == StopBranch(M.currentState)
    IN  CASE b = "noop" -> Complete(M, c, "resolved", "noop")
          [] b \in {"waitActiveFatal", "waitInactiveZombie"} ->
                Subscribe([M EXCEPT !.pc[c] = "waiting"], WaitStates(b), "stop", c, TRUE)
          [] b = "detach" ->
                LET M1 == SetState([M EXCEPT !.hist[c].from = M.currentState],
                                   c, "stopping", None)
                IN  IF M1.stopLogListener = 0
                    THEN Complete(SetState(M1, c, "zombie", AssertErr),
                                  c, "resolved", "zombie")
                    ELSE [M1 EXCEPT !.pc[c] = "teardown",
                                    !.hist[c].tok = M1.stopLogListener,
                                    !.invoked[M1.stopLogListener] = @ + 1]

\* ------------------------------------------------------------- the steps

\* the constructor: state 'inactive', no error, the two subscriptions
Init ==
    /\ currentState = "inactive"
    /\ error = None
    /\ valueEmitter =
          << [cb |-> "resetRestartCnt", call |-> AutoCall, states |-> {"active"},
              once |-> FALSE, executed |-> FALSE],
             [cb |-> "autoRestart", call |-> AutoCall, states |-> {"fatal"},
              once |-> FALSE, executed |-> FALSE] >>
    /\ stopLogListener = 0
    /\ restartCnt = RESTART_CNT
    /\ device \in {"connected", "disconnected"}
    /\ pc = [c \in AllCalls |-> "idle"]
    /\ hist = [c \in AllCalls |-> NoHist]
    /\ invoked = <<>>
    /\ nFail = 0
    /\ autoStarts = 0
    /\ activeCnt = NoCnt
    /\ completed = {}
    /\ observers = <<>>

\* the next call a caller issues
IsNextCall(c) == pc[c] = "idle" /\ \A d \in Calls : d < c => pc[d] # "idle"

\* a caller calls start()
CallStart(c) ==
    /\ IsNextCall(c)
    /\ Install(RunStart([Pack EXCEPT !.hist[c].op = "start",
                                     !.hist[c].issuedIn = currentState], c))

\* a caller calls stop()
CallStop(c) ==
    /\ IsNextCall(c)
    /\ Install(RunStop([Pack EXCEPT !.hist[c].op = "stop",
                                    !.hist[c].issuedIn = currentState], c))

\* startListener() resolves with a new teardown function: the loop breaks
\* and start() sets 'active'
AttachResolves(c) ==
    /\ pc[c] = "attach"
    /\ LET tok == Len(invoked) + 1
           M == [Pack EXCEPT !.stopLogListener = tok, !.invoked = Append(@, 0)]
       IN  Install(Complete(SetState(M, c, "active", None), c, "resolved", "active"))

\* startListener() rejects: the catch block of start()
AttachRejects(c) ==
    /\ pc[c] = "attach"
    /\ nFail < MaxFailures
    /\ LET e == <<"startListener", nFail + 1>>
           M == [Pack EXCEPT !.nFail = @ + 1, !.hist[c].fails = @ + 1]
       IN  IF RetriesExhausted(restartCnt)
           THEN Install(Complete(SetState(M, c, "fatal", e), c, "resolved", "fatal"))
           ELSE Install([M EXCEPT !.restartCnt = DecrementRestartCnt(@),
                                  !.pc[c] = "sleep"])

\* sleep(RESTART_SLEEP) is over: the loop of start() goes round
SleepEnds(c) ==
    /\ pc[c] = "sleep"
    /\ Install(AttachLoop([Pack EXCEPT !.hist[c].sleeps = @ + 1], c))

\* the teardown function settles: the rest of stop()
TeardownSettles(c, ok) ==
    /\ pc[c] = "teardown"
    /\ LET r == TeardownResult(ok, <<"teardown", hist[c].tok>>)
       IN  Install(Complete(SetState(Pack, c, r[1], r[2]), c, "resolved",
                            IF ok THEN "detached" ELSE "zombie"))

\* the device comes and goes: what isDeviceConnected() returns changes
DeviceConnects ==
    /\ device = "disconnected"
    /\ Install([Pack EXCEPT !.device = "connected"])

DeviceDisconnects ==
    /\ device = "connected"
    /\ Install([Pack EXCEPT !.device = "disconnected"])

\* from now on isDeviceConnected() throws
PredicateBreaks ==
    /\ device # "throws"
    /\ Install([Pack EXCEPT !.device = "throws"])

\* isDeviceConnected() returns a value again
PredicateRecovers ==
    /\ device = "throws"
    /\ \E d \in {"connected", "disconnected"} : Install([Pack EXCEPT !.device = d])

Next ==
    \/ \E c \in Calls : CallStart(c)
    \/ \E c \in Calls : CallStop(c)
    \/ \E c \in AllCalls : AttachResolves(c)
    \/ \E c \in AllCalls : AttachRejects(c)
    \/ \E c \in AllCalls : SleepEnds(c)
    \/ \E c \in AllCalls : TeardownSettles(c, TRUE)
    \/ \E c \in AllCalls : TeardownSettles(c, FALSE)
    \/ DeviceConnects
    \/ DeviceDisconnects

Spec == Init /\ [][Next]_vars

\* the states an observer registers for
ObservedSets == {{"active"}, {"active", "fatal"}}

\* an observer calls DeviceListener.on (once = FALSE) or DeviceListener.once
\* with a callback of its own
Observe(states, once) ==
    /\ Len(observers) < MaxObservers
    /\ LET k == Len(observers) + 1
           M == [Pack EXCEPT !.observers =
                     Append(@, [states |-> states, once |-> once,
                                atReg |-> currentState, calls |-> 0, entries |-> 0])]
       IN  Install(Subscribe(M, states, "observer", k, once))

\* the same program watched by observers
NextObserved ==
    \/ \E c \in 1..MaxObsCalls : CallStart(c)
    \/ \E c \in 1..MaxObsCalls : CallStop(c)
    \/ \E c \in AllCalls : AttachResolves(c)
    \/ \E c \in AllCalls : AttachRejects(c)
    \/ \E c \in AllCalls : SleepEnds(c)
    \/ \E c \in AllCalls : TeardownSettles(c, TRUE)
    \/ \E c \in AllCalls : TeardownSettles(c, FALSE)
    \/ DeviceConnects
    \/ DeviceDisconnects
    \/ \E S \in ObservedSets, once \in BOOLEAN : Observe(S, once)

SpecObserved == Init /\ [][NextObserved]_vars

\* the same program with a connectivity predicate that can throw
NextThrowing == Next \/ PredicateBreaks \/ PredicateRecovers

SpecThrowing == Init /\ [][NextThrowing]_vars

TypeOK ==
    /\ currentState \in States
    /\ restartCnt \in Int
    /\ device \in {"connected", "disconnected", "throws"}
    /\ \A c \in AllCalls :
          pc[c] \in {"idle", "waiting", "attach", "sleep", "teardown",
                     "resolved", "rejected"}

\* ================================================================ claims

Issued == {c \in AllCalls : pc[c] # "idle"}

\* ------------------------------------------------------------------- C1
\* C1: at most one attach or detach operation is in flight at any time:
\* never two pending startListener() calls, never two pending teardown
\* calls, never a pending startListener() together with a pending teardown.
InFlight == {c \in AllCalls : pc[c] \in {"attach", "teardown"}}

C1_OneInFlight == Cardinality(InFlight) <= 1

\* a teardown is pending while a start() and a stop() issued during the
\* attach and during the teardown are waiting
C1_Witness ==
    \E c, d, e \in Calls :
        /\ pc[c] = "teardown"
        /\ pc[d] = "waiting" /\ hist[d].op = "start" /\ hist[d].issuedIn = "stopping"
        /\ pc[e] = "waiting" /\ hist[e].op = "stop" /\ hist[e].issuedIn = "starting"

\* ------------------------------------------------------------------- C2
\* C2: a teardown function returned by startListener() is invoked at most
\* once, whatever start() and stop() calls follow.
C2_TokenInvokedOnce == \A t \in 1..Len(invoked) : invoked[t] <= 1

\* the token was invoked, and a stop() coalesced during that teardown and
\* a stop() made after the detach have both settled
C2_Witness ==
    /\ Len(invoked) >= 1 /\ invoked[1] = 1
    /\ \E c, d \in Calls :
          /\ c # d
          /\ hist[c].op = "stop" /\ hist[c].issuedIn = "stopping" /\ pc[c] = "resolved"
          /\ hist[d].op = "stop" /\ hist[d].issuedIn \in {"inactive", "zombie"}
          /\ pc[d] = "resolved"

\* ------------------------------------------------------------------- C3
\* C3: every time 'active' is entered restartCnt is reset to RESTART_CNT:
\* right after any set('active') has notified its subscribers,
\* restartCnt = RESTART_CNT.
C3_ResetOnEveryActive == activeCnt # NoCnt => activeCnt = RESTART_CNT

\* ------------------------------------------------------------------- C4
\* C4: a start() call that ran the attach sequence, saw startListener()
\* fail k < RESTART_CNT times and then succeed, completes with the state
\* 'active', restartCnt = RESTART_CNT, k + 1 startListener() invocations
\* and k backoff sleeps.  (Read in the claim's favour: only calls during
\* which no stop() was waiting are considered, so that 'active' is still
\* the state when the call completes.)
NoStopPending ==
    \A d \in Calls : hist[d].op = "stop" => pc[d] = "resolved" /\ d \notin completed

C4_RetryThenActive ==
    \A c \in completed :
        ( /\ hist[c].op = "start"
          /\ hist[c].outcome = "active"
          /\ hist[c].fails < RESTART_CNT
          /\ NoStopPending )
        => /\ currentState = "active"
           /\ restartCnt = RESTART_CNT
           /\ hist[c].attaches = hist[c].fails + 1
           /\ hist[c].sleeps = hist[c].fails

\* ------------------------------------------------------------------- C5
\* C5: when startListener() fails RESTART_CNT + 1 times in a row during the
\* one start() call made on a fresh instance, the state ends in 'fatal',
\* the error is the last failure, startListener() was invoked exactly
\* RESTART_CNT + 1 times and the 'fatal' subscriber issues no start().
OnlyCall(c) == Issued \cap Calls = {c}

C5_FatalAfterRetries ==
    \A c \in Calls :
        (OnlyCall(c) /\ hist[c].op = "start")
        => /\ hist[c].fails <= RESTART_CNT + 1
           /\ hist[c].fails = RESTART_CNT + 1
              => /\ currentState = "fatal"
                 /\ error = <<"startListener", nFail>>
                 /\ nFail = RESTART_CNT + 1
                 /\ hist[c].attaches = RESTART_CNT + 1
                 /\ pc[c] = "resolved"
                 /\ autoStarts = 0
                 /\ pc[AutoCall] = "idle"

C5_Witness ==
    \E c \in Calls :
        /\ OnlyCall(c) /\ hist[c].op = "start"
        /\ hist[c].fails = RESTART_CNT + 1
        /\ currentState = "fatal"

\* ------------------------------------------------------------------- C6
\* C6 as claimed: no start() or stop() call ever rejects, whether
\* startListener(), the teardown function or isDeviceConnected() fails.
C6_NeverRejects == \A c \in AllCalls : pc[c] # "rejected"

\* C6 as amended: a failure of startListener() or of the teardown function
\* never rejects the call, which resolves with the failure stored in the
\* state and the error; an exception of isDeviceConnected() does leave
\* start(): that call rejects and the state stays 'starting', with nothing
\* in flight.
C6_RejectsOnlyOnPredicate ==
    \A c \in AllCalls :
        /\ pc[c] = "rejected"
           => /\ hist[c].op = "start"
              /\ hist[c].outcome = "threw"
              /\ currentState = "starting"
              /\ error = None
              /\ InFlight = {}
        /\ hist[c].outcome \in {"fatal", "zombie"}
           => /\ pc[c] = "resolved"
              /\ (c \in completed /\ currentState = hist[c].outcome)
                 => /\ error # None
                    /\ error[1] = (IF currentState = "fatal" THEN "startListener"
                                   ELSE "teardown")

\* a start() rejected by the predicate, after a stop() whose teardown
\* failed and a start() whose retries ran out had resolved
C6_Witness ==
    \E c, d \in Calls :
        /\ pc[c] = "rejected"
        /\ hist[d].outcome \in {"zombie", "fatal"} /\ pc[d] = "resolved"

\* ------------------------------------------------------------------- C7
\* C7: a start() issued while 'starting' invokes startListener() only after
\* the in-flight attempt is over, and completes only after the state was
\* set to 'active' or 'fatal'.
C7_StartWhileStarting ==
    \A c \in Calls :
        (hist[c].op = "start" /\ hist[c].issuedIn = "starting")
        => /\ hist[c].woke = <<>>
              => pc[c] = "waiting" /\ hist[c].attaches = 0
           /\ hist[c].woke # <<>> => hist[c].woke[1][1] \in {"active", "fatal"}
           /\ pc[c] \in {"attach", "sleep"}
              => \A d \in AllCalls \ {c} : pc[d] \notin {"attach", "sleep"}

\* such a call has completed after 'fatal', having attached itself
C7_Witness ==
    \E c \in Calls :
        /\ hist[c].op = "start" /\ hist[c].issuedIn = "starting"
        /\ pc[c] = "resolved"
        /\ hist[c].woke[1][1] = "fatal"
        /\ hist[c].attaches > 0

\* ------------------------------------------------------------------- C8
StopWhileStarting(c) == hist[c].op = "stop" /\ hist[c].issuedIn = "starting"

\* the stop() does not touch the attempt: until it is woken it waits, has
\* set no state, and the state is not 'stopping'
C8_NoInterference(c) ==
    hist[c].woke = <<>>
    => pc[c] = "waiting" /\ hist[c].did = <<>> /\ currentState # "stopping"

\* woken by 'active' a real detach takes place: the stop() finds 'active',
\* sets 'stopping' and invokes the teardown function, or it finds that a
\* stop() which waited ahead of it has just done so; until that teardown
\* settles the state is 'stopping'
C8_DetachAfterActive(c) ==
    (hist[c].woke # <<>> /\ hist[c].woke[1][1] = "active")
    => /\ hist[c].woke[1][2] \in {"active", "stopping"}
       /\ hist[c].woke[1][2] = "active"
          => /\ hist[c].did # <<>> /\ hist[c].did[1] = <<"stopping", None>>
             /\ hist[c].tok # 0 /\ invoked[hist[c].tok] = 1
             /\ pc[c] \in {"teardown", "resolved"}
             /\ pc[c] = "resolved" => hist[c].outcome \in {"detached", "zombie"}
       /\ hist[c].woke[1][2] = "stopping"
          => /\ Len(hist[c].woke) = 1 => pc[c] = "waiting" /\ hist[c].did = <<>>
             /\ Len(hist[c].woke) > 1 => hist[c].woke[2][1] \in {"inactive", "zombie"}
             /\ \E d \in Calls : /\ d < c
                                 /\ hist[d].op = "stop"
                                 /\ hist[d].tok # 0
                                 /\ invoked[hist[d].tok] = 1
       /\ (Len(hist[c].woke) = 1 /\ pc[c] \in {"teardown", "waiting"})
          => /\ currentState = "stopping"
             /\ stopLogListener # 0 /\ invoked[stopLogListener] = 1

\* woken by 'fatal' the stop() is a no-op
C8_NoopAfterFatal(c) ==
    (hist[c].woke # <<>> /\ hist[c].woke[1][1] = "fatal")
    => /\ pc[c] = "resolved" /\ hist[c].outcome = "noop"
       /\ hist[c].did = <<>> /\ Len(hist[c].woke) = 1

\* woken by 'fatal' the stop() is a no-op if it finds no attach under way
\* (the state is still 'fatal', or 'inactive' after a start() that waited
\* ahead of it found the device absent); if a start() that waited ahead of
\* it has set 'starting' again and is attaching, the stop() subscribes
\* again and waits for that attempt
C8_AfterFatal(c) ==
    (hist[c].woke # <<>> /\ hist[c].woke[1][1] = "fatal")
    => /\ hist[c].woke[1][2] \in {"fatal", "inactive", "starting"}
       /\ hist[c].woke[1][2] \in {"fatal", "inactive"}
          => /\ pc[c] = "resolved" /\ hist[c].outcome = "noop"
             /\ hist[c].did = <<>> /\ Len(hist[c].woke) = 1
       /\ hist[c].woke[1][2] = "starting"
          => /\ \E d \in Calls : /\ d < c
                                 /\ hist[d].op = "start"
                                 /\ hist[d].from = "fatal"
             /\ Len(hist[c].woke) = 1 => pc[c] = "waiting" /\ hist[c].did = <<>>
             /\ Len(hist[c].woke) > 1 => hist[c].woke[2][1] \in {"active", "fatal"}

C8_WitnessActive ==
    \E c \in Calls :
        StopWhileStarting(c) /\ hist[c].woke = << <<"active", "active">> >>
        /\ pc[c] = "teardown"

C8_WitnessFatal ==
    \E c \in Calls :
        StopWhileStarting(c) /\ hist[c].woke = << <<"fatal", "fatal">> >>
        /\ pc[c] = "resolved"

StartFollowed(s) ==
    \E d \in Calls :
        /\ hist[d].op = "start"
        /\ hist[d].woke # <<>>
        /\ hist[d].woke[Len(hist[d].woke)] = <<s, s>>
        /\ hist[d].from = s
        /\ currentState \in {"starting", "inactive"}

\* C9: a stop() that ran the detach sequence from 'active' sets 'inactive'
\* when the teardown function completes normally, and sets 'zombie' with
\* the raised error when it raises; either way the stop() call resolves.
\* The state and the error are still those when the call completes unless
\* a start() that was waiting for the detach has set 'starting' meanwhile.
C9_StopFromActive ==
    \A c \in Calls :
        (hist[c].op = "stop" /\ hist[c].from = "active" /\ pc[c] # "teardown")
        => /\ pc[c] = "resolved"
           /\ hist[c].outcome \in {"detached", "zombie"}
           /\ hist[c].outcome = "detached"
              => /\ hist[c].did = << <<"stopping", None>>, <<"inactive", None>> >>
                 /\ c \in completed
                    => \/ currentState = "inactive" /\ error = None
                       \/ StartFollowed("inactive")
           /\ hist[c].outcome = "zombie"
              => /\ hist[c].did = << <<"stopping", None>>,
                                     <<"zombie", <<"teardown", hist[c].tok>> >> >>
                 /\ c \in completed
                    => \/ /\ currentState = "zombie"
                          /\ error = <<"teardown", hist[c].tok>>
                       \/ StartFollowed("zombie")

\* a stop() from 'active' has just completed in 'zombie' with the error set
C9_Witness ==
    \E c \in completed :
        /\ hist[c].op = "stop" /\ hist[c].from = "active"
        /\ hist[c].outcome = "zombie"
        /\ currentState = "zombie" /\ error = <<"teardown", hist[c].tok>>

\* ------------------------------------------------------------------ C10
\* C10: when isDeviceConnected() returns false as start() enters the attach
\* sequence, the call sets 'starting' and then 'inactive', never invokes
\* startListener(), leaves restartCnt as it was and resolves with no error
\* recorded.
C10_DeviceAbsent ==
    \A c \in Calls :
        (hist[c].op = "start" /\ hist[c].outcome = "absent" /\ hist[c].fails = 0)
        => /\ pc[c] = "resolved"
           /\ hist[c].attaches = 0
           /\ hist[c].did = << <<"starting", None>>, <<"inactive", None>> >>
           /\ c \in completed
              => /\ currentState = "inactive"
                 /\ error = None
                 /\ restartCnt = hist[c].cnt0
                 /\ stopLogListener = 0

\* a start() made in 'inactive' with the device absent has just completed
C10_Witness ==
    \E c \in completed :
        /\ hist[c].op = "start" /\ hist[c].outcome = "absent"
        /\ hist[c].from = "inactive" /\ hist[c].fails = 0
        /\ currentState = "inactive"

\* ------------------------------------------------------------------ C11
\* C11: a callback registered with once(['active','fatal'], cb) (or any
\* other set of states) while the state is none of them runs exactly once,
\* when the first of the states is entered, and never again.
C11_OnceRunsOnce ==
    \A k \in DOMAIN observers :
        (observers[k].once /\ observers[k].atReg \notin observers[k].states)
        => observers[k].calls = (IF observers[k].entries >= 1 THEN 1 ELSE 0)

\* registered for both states; 'active' and 'fatal' have both been entered
C11_Witness ==
    \E k \in DOMAIN observers :
        /\ observers[k].once /\ observers[k].states = {"active", "fatal"}
        /\ observers[k].atReg \notin observers[k].states
        /\ observers[k].entries >= 2 /\ observers[k].calls = 1
        /\ \E c \in Calls : hist[c].outcome = "fatal"
        /\ \E c \in Calls : hist[c].outcome = "active"

\* ------------------------------------------------------------------ C12
\* C12: a callback registered with on(S, cb) runs on every entry into a
\* state of S, and once more at registration if the state was in S then.
C12_OnRunsOnEveryEntry ==
    \A k \in DOMAIN observers :
        ~observers[k].once
        => observers[k].calls = observers[k].entries
                                + (IF observers[k].atReg \in observers[k].states
                                   THEN 1 ELSE 0)

\* ------------------------------------------------------------------ C13
\* the step is call c, a start() or a stop(), made in state s
IsCall(c, op, s) ==
    /\ IsNextCall(c)
    /\ pc'[c] # "idle"
    /\ hist'[c].op = op
    /\ currentState = s

\* what a no-op leaves alone: the state, the error, the teardown function,
\* restartCnt, the registrations (no subscriber was notified), the observers'
\* callbacks, the teardown invocations and every other call
NothingTouched(c) ==
    /\ UNCHANGED <<currentState, error, stopLogListener, restartCnt,
                   valueEmitter, observers, invoked, nFail, autoStarts>>
    /\ \A d \in AllCalls \ {c} : pc'[d] = pc[d] /\ hist'[d] = hist[d]
    /\ hist'[c].attaches = 0 /\ hist'[c].did = <<>>

\* C13: start() in 'active' completes at once, without invoking
\* startListener(), without changing the state, the teardown function, the
\* error or restartCnt, and without notifying any subscriber.
C13_StartWhenActive ==
    [][\A c \in Calls :
          IsCall(c, "start", "active") => pc'[c] = "resolved" /\ NothingTouched(c)]_vars

\* a start() made in 'active' has resolved while an observer of 'active'
\* is registered
C13_Witness ==
    /\ \E c \in Calls :
          hist[c].op = "start" /\ hist[c].issuedIn = "active" /\ pc[c] = "resolved"
    /\ \E k \in DOMAIN observers :
          /\ ~observers[k].once /\ observers[k].atReg = "starting"
          /\ observers[k].calls = 1 /\ observers[k].entries = 1
    /\ currentState = "active"

\* ------------------------------------------------------------------ C14
\* start() made by call c in state s with error e, up to its first await
StartFrom(c, s, e) ==
    RunStart([Pack EXCEPT !.currentState = s, !.error = e,
                          !.hist[c].op = "start", !.hist[c].issuedIn = s], c)

\* C14: stop() in 'inactive', 'fatal' or 'zombie' is a no-op that leaves
\* the state, the error, the teardown function and restartCnt unchanged and
\* invokes no teardown function; start() in 'zombie' runs the attach
\* sequence exactly as it would from 'inactive'.
C14_StoppedStates ==
    [][\A c \in Calls :
          /\ \A s \in {"inactive", "fatal", "zombie"} :
                IsCall(c, "stop", s) => pc'[c] = "resolved" /\ NothingTouched(c)
          /\ IsCall(c, "start", "zombie")
             => LET M == StartFrom(c, "inactive", None)
                IN  /\ currentState' = M.currentState
                    /\ error' = M.error
                    /\ stopLogListener' = M.stopLogListener
                    /\ restartCnt' = M.restartCnt
                    /\ valueEmitter' = M.valueEmitter
                    /\ invoked' = M.invoked
                    /\ pc' = M.pc
                    /\ hist'[c].did = M.hist[c].did
                    /\ hist'[c].attaches = M.hist[c].attaches
                    /\ hist'[c].did # <<>>
                    /\ hist'[c].did[1] = <<"starting", None>>]_vars

\* a stop() made in 'zombie' has resolved and a start() made in 'zombie'
\* has run the attach sequence
C14_Witness ==
    \E c, d \in Calls :
        /\ hist[c].op = "stop" /\ hist[c].issuedIn = "zombie" /\ pc[c] = "resolved"
        /\ hist[d].op = "start" /\ hist[d].from = "zombie"

\* ------------------------------------------------------------------ C15
\* C15: the recorded error is defined if and only if the current state is
\* 'fatal' or 'zombie': it is set when a failure state is entered and
\* cleared when that state is left.
C15_ErrorIffFailed == (error # None) <=> (currentState \in {"fatal", "zombie"})

\* a start() has left 'zombie', where an error was recorded, and the error
\* is cleared
C15_Witness ==
    /\ currentState = "starting" /\ error = None
    /\ \E c, d \in Calls :
          /\ hist[c].outcome = "zombie" /\ hist[c].did[2][2] # None
          /\ hist[d].op = "start" /\ hist[d].from = "zombie"

\* ------------------------------------------------------------------ C16
\* the detach sequence never found the teardown function missing
NoAssertFailed ==
    \A c \in AllCalls :
        \A i \in 1..Len(hist[c].did) : hist[c].did[i][2] # AssertErr

\* C16 as claimed: the teardown function is present exactly while the
\* instance is attached ('active', and 'stopping' until the detach is
\* over): present in 'active', absent once a detach has completed.
C16_TokenIffAttached ==
    /\ (stopLogListener # 0) <=> (currentState \in {"active", "stopping"})
    /\ NoAssertFailed

\* C16 as amended: the teardown function is present in 'active' (not yet
\* invoked) and in 'stopping' (invoked once), so assertNotNull never fails;
\* it is absent in 'starting' and 'fatal'; after a detach it is not cleared:
\* in 'inactive' and 'zombie' it is either absent or the function that the
\* detach has already invoked, kept until the next start() clears it.
C16_TokenKeptAfterDetach ==
    /\ currentState = "active"
       => stopLogListener # 0 /\ invoked[stopLogListener] = 0
    /\ currentState = "stopping"
       => stopLogListener # 0 /\ invoked[stopLogListener] = 1
    /\ currentState \in {"starting", "fatal"} => stopLogListener = 0
    /\ currentState \in {"inactive", "zombie"}
       => \/ stopLogListener = 0
          \/ /\ invoked[stopLogListener] = 1
             /\ \E c \in Calls : /\ hist[c].outcome \in {"detached", "zombie"}
                                 /\ hist[c].tok = stopLogListener
    /\ NoAssertFailed

\* a detach has completed and the invoked teardown function is still held
C16_Witness ==
    /\ currentState \in {"inactive", "zombie"}
    /\ stopLogListener # 0
    /\ invoked[stopLogListener] = 1

Pending == {c \in AllCalls : pc[c] \in {"attach", "sleep", "teardown"}}

C18_EveryCallCompletes ==
    Pending = {} => \A c \in Calls : pc[c] # "waiting"

\* ------------------------------------------------------------------ C19
\* C19: a stop() never tears down an attachment made by a start() called
\* after it: a start() called in 'inactive' whose startListener() succeeds,
\* with no stop() issued at or after it, completes in state 'active'.
C19_NoLateTeardown ==
    \A c \in completed :
        ( /\ hist[c].op = "start"
          /\ hist[c].issuedIn = "inactive"
          /\ hist[c].outcome = "active"
          /\ \A d \in Calls : hist[d].op = "stop" => d < c )
        => currentState = "active"

\* ------------------------------------------------------------------ C20
\* C20: 0 <= restartCnt <= RESTART_CNT always, restartCnt is 0 at every
\* entry into 'fatal', and so the 'fatal' subscriber never issues a start().
C20_NoAutoRestart ==
    /\ restartCnt \in 0..RESTART_CNT
    /\ currentState = "fatal" => restartCnt = 0
    /\ \A c \in completed : hist[c].outcome = "fatal" => restartCnt = 0
    /\ autoStarts = 0
    /\ pc[AutoCall] = "idle"

\* 'fatal' was entered, its subscriber ran and returned early
C20_Witness ==
    /\ currentState = "fatal"
    /\ valueEmitter[2].cb = "autoRestart" /\ valueEmitter[2].executed
    /\ autoStarts = 0

====
